---- MODULE Spec2Model ----
(***************************************************************************)
(* Model of svger's application state machine (src/src/app.rs): the Svger  *)
(* struct, its init / update / view / subscription functions, the message  *)
(* queue of the hosting event loop and the two commands issued at init.    *)
(*                                                                         *)
(* Option<T> is encoded as a sequence: None is <<>>, Some(x) is <<x>>.     *)
(***************************************************************************)
EXTENDS Integers, Sequences, FiniteSets, TLC

VARIABLES
    context_page,     \* Svger.context_page
    show_context,     \* Svger.core.window.show_context
    context_title,    \* the context drawer's title kept by Svger.core
    svg_files,        \* Svger.svg_files
    grid_rows_count,  \* Svger.grid_rows_count
    dir,              \* what SVG_DIR resolves to on the file system
    window_width,     \* current width of the main window
    window_title,     \* title of the main window
    commands,         \* commands returned by init and not yet run
    queue,            \* messages in flight, oldest first
    last              \* the step taken last: operation, input, output

vars == <<context_page, show_context, context_title, svg_files,
          grid_rows_count, dir, window_width, window_title, commands,
          queue, last>>

-----------------------------------------------------------------------------
(* Bounds of the model *)

\* most columns a window width of the model can hold
MaxCols == 2
\* most entries of the directory listing
MaxEntries == 7
\* most messages in flight
MaxQueue == 2
\* most entries of a directory made of the entries of EntryPool
MaxListing == 3
\* ContextPage variants beyond About (the enum is closed; update() is
\* written for any number of variants)
ExtraContextPages == 1

-----------------------------------------------------------------------------
(* Constants and types of the program *)

GRID_ITEM_WIDTH == 256

REPOSITORY == "https://github.com/edfloreshz/cosmic-app-template"

None == <<>>
Some(x) == <<x>>

\* enum ContextPage { About }, About being the default
About == 0
ContextPage == About .. ExtraContextPages

\* ContextPage::title: the localized string of the page
title(page) == IF page = About THEN "about" ELSE "page"

\* enum MenuAction, one action per context page
MenuAction == ContextPage

\* enum SvgerMessage, as records of one shape
LaunchUrl(url) ==
    [type |-> "LaunchUrl", url |-> url, context_page |-> About,
     grid_rows_count |-> None]
ToggleContextPage(page) ==
    [type |-> "ToggleContextPage", url |-> "", context_page |-> page,
     grid_rows_count |-> None]
UpdateGridRowsCount(count) ==
    [type |-> "UpdateGridRowsCount", url |-> "", context_page |-> About,
     grid_rows_count |-> count]
NoMessage ==
    [type |-> "None", url |-> "", context_page |-> About,
     grid_rows_count |-> None]

\* MenuAction::message
message(action) == ToggleContextPage(action)

\* window::Id::MAIN and another window's id
MAIN == 0
OtherWindow == 1

\* widths a window can take: none, one unit short of a cell, every whole
\* number of cells, and some way past the last (600 when two cells fit)
Widths ==
    {0, GRID_ITEM_WIDTH - 1}
    \cup {k * GRID_ITEM_WIDTH : k \in 1 .. MaxCols}
    \cup {MaxCols * GRID_ITEM_WIDTH + 88}

\* iced::Event, as records of one shape
WindowEvent(id, event, width) ==
    [kind |-> "Window", window_id |-> id, window_event |-> event,
     width |-> width]
OtherEvent == [kind |-> "Keyboard", window_id |-> MAIN,
               window_event |-> "", width |-> 0]
NoEvent == [kind |-> "None", window_id |-> MAIN,
            window_event |-> "", width |-> 0]
Events ==
    {WindowEvent(MAIN, "Resized", w) : w \in Widths}
    \cup {WindowEvent(OtherWindow, "Resized", MaxCols * GRID_ITEM_WIDTH)}
    \cup {WindowEvent(id, "Moved", 0) : id \in {MAIN, OtherWindow}}
    \cup {OtherEvent}

-----------------------------------------------------------------------------
(* The file system under SVG_DIR *)

\* the i-th entry the directory enumeration yields: svg files, and at every
\* third place an entry the listing must leave out (a file with extension
\* SVG, a directory named like an image, an unreadable entry, a png file)
DirEntry(i) ==
    LET junk == i % 3 = 0
        kind == (i \div 3) % 4
    IN  [ok       |-> ~(junk /\ kind = 3),
         is_file  |-> ~(junk /\ kind = 2),
         children |-> <<>>,
         path     |-> [stem |-> i,
                       ext  |-> IF junk /\ kind = 1 THEN Some("SVG")
                                ELSE IF junk /\ kind = 0 THEN Some("png")
                                ELSE Some("svg")]]

Listing(k) == [i \in 1 .. k |-> DirEntry(i)]

Directories ==
    {[is_dir |-> FALSE, readable |-> FALSE, entries |-> <<>>],
     [is_dir |-> TRUE, readable |-> FALSE, entries |-> <<>>]}
    \cup {[is_dir |-> TRUE, readable |-> TRUE, entries |-> Listing(k)] :
            k \in 0 .. MaxEntries}

\* the directories with nothing left out of the enumeration order: the path
\* that is no directory, and the longest listing
SpecDirectories ==
    {d \in Directories : ~d.is_dir \/ Len(d.entries) = MaxEntries}

\* an entry of a directory: a file or a directory with its own entries,
\* or an entry that cannot be read (ok is FALSE)
File(stem, ext) ==
    [ok |-> TRUE, is_file |-> TRUE, children |-> <<>>,
     path |-> [stem |-> stem, ext |-> ext]]
SubDirectory(stem, ext, children) ==
    [ok |-> TRUE, is_file |-> FALSE, children |-> children,
     path |-> [stem |-> stem, ext |-> ext]]
Unreadable(entry) == [entry EXCEPT !.ok = FALSE]

\* the entries directories are made of, stems standing for names: a.svg,
\* b.png, c.SVG, sub/ holding d.svg, the directory e.svg/, the file f with
\* no extension, g.svg that cannot be read, and h.svg
a_svg == File(1, Some("svg"))
b_png == File(2, Some("png"))
c_SVG == File(3, Some("SVG"))
d_svg == File(5, Some("svg"))
sub   == SubDirectory(4, None, <<d_svg>>)
h_svg == File(9, Some("svg"))
EntryPool ==
    {a_svg, b_png, c_SVG, sub, SubDirectory(6, Some("svg"), <<>>),
     File(7, None), Unreadable(File(8, Some("svg"))), h_svg}

\* the listings of at most MaxListing different entries of EntryPool, in
\* every enumeration order
PoolListings ==
    UNION {{l \in [1 .. n -> EntryPool] :
              \A i, j \in 1 .. n : i # j => l[i] # l[j]} :
           n \in 0 .. MaxListing}

\* what a path can resolve to: no directory, a directory that cannot be
\* read, a directory with a listing
ListerDirectories ==
    {[is_dir |-> FALSE, readable |-> FALSE, entries |-> <<>>]}
    \cup {[is_dir |-> TRUE, readable |-> r, entries |-> l] :
            r \in BOOLEAN, l \in PoolListings}

\* the filter accepting every spelling of the extension
is_svg_file_any_case(entry) ==
    /\ entry.ok
    /\ entry.is_file
    /\ entry.path.ext \in {Some("svg"), Some("SVG")}

\* the filter of list_svg_files: a readable entry that is a file whose
\* extension is svg
is_svg_file(entry) ==
    /\ entry.ok
    /\ entry.is_file
    /\ entry.path.ext = Some("svg")

RECURSIVE push_svg_files(_, _, _)
push_svg_files(entries, i, acc) ==
    IF i > Len(entries) THEN acc
    ELSE LET entry == entries[i] IN
         IF is_svg_file(entry)
         THEN push_svg_files(entries, i + 1, Append(acc, entry.path))
         ELSE push_svg_files(entries, i + 1, acc)

list_svg_files(d) ==
    IF d.is_dir /\ d.readable
    THEN push_svg_files(d.entries, 1, <<>>)
    ELSE <<>>

-----------------------------------------------------------------------------
(* Svger *)

\* the fields of the Svger struct in the current state
Self ==
    [context_page    |-> context_page,
     show_context    |-> show_context,
     context_title   |-> context_title,
     svg_files       |-> svg_files,
     grid_rows_count |-> grid_rows_count]

\* init returning the title command alone, with no measurement requested
init_no_measure(d) ==
    [app |-> [context_page    |-> About,
              show_context    |-> FALSE,
              context_title   |-> "",
              svg_files       |-> list_svg_files(d),
              grid_rows_count |-> None],
     command |-> <<"set_window_title">>]

\* Svger::init: the application and the batch of commands it returns
init(d) ==
    [app |-> [context_page    |-> About,
              show_context    |-> FALSE,
              context_title   |-> "",
              svg_files       |-> list_svg_files(d),
              grid_rows_count |-> None],
     command |-> <<"set_window_title", "fetch_size">>]

\* the measurement's closure rounding up instead of down
fetch_size_callback_ceil(width) ==
    (width + GRID_ITEM_WIDTH - 1) \div GRID_ITEM_WIDTH

\* the closure update_grid_rows_count hands to window::fetch_size
fetch_size_callback(width) == width \div GRID_ITEM_WIDTH

\* Svger::update_grid_rows_count: the message the measurement delivers
update_grid_rows_count(width) ==
    UpdateGridRowsCount(Some(fetch_size_callback(width)))

\* the subscription turning a capacity of 0 into None
subscription_clamped(event) ==
    IF event.kind = "Window"
    THEN IF event.window_id = MAIN
         THEN IF event.window_event = "Resized"
              THEN Some(UpdateGridRowsCount(
                        IF event.width \div GRID_ITEM_WIDTH = 0 THEN None
                        ELSE Some(event.width \div GRID_ITEM_WIDTH)))
              ELSE None
         ELSE None
    ELSE None

\* the subscription listening to the resizes of every window
subscription_any_window(event) ==
    IF event.kind = "Window"
    THEN IF event.window_event = "Resized"
         THEN Some(UpdateGridRowsCount(
                   Some(event.width \div GRID_ITEM_WIDTH)))
         ELSE None
    ELSE None

\* Svger::subscription: the message an event is mapped to, if any
subscription(event) ==
    IF event.kind = "Window"
    THEN IF event.window_id = MAIN
         THEN IF event.window_event = "Resized"
              THEN Some(UpdateGridRowsCount(
                        Some(event.width \div GRID_ITEM_WIDTH)))
              ELSE None
         ELSE None
    ELSE None

\* update leaving the drawer open when the page shown is toggled again
update_keep_open(self, msg, opened) ==
    IF msg.type = "LaunchUrl"
    THEN [app |-> self, command |-> <<>>, effects |-> {"open"}]
    ELSE IF msg.type = "ToggleContextPage"
    THEN [app |-> [self EXCEPT !.context_page = msg.context_page,
                               !.show_context = TRUE,
                               !.context_title = title(msg.context_page)],
          command |-> <<>>,
          effects |-> {"set_context_title"}]
    ELSE [app |-> [self EXCEPT !.grid_rows_count = msg.grid_rows_count],
          command |-> <<>>,
          effects |-> {}]

\* update flipping show_context whichever page is toggled
update_always_flip(self, msg, opened) ==
    IF msg.type = "LaunchUrl"
    THEN [app |-> self, command |-> <<>>, effects |-> {"open"}]
    ELSE IF msg.type = "ToggleContextPage"
    THEN [app |-> [self EXCEPT !.context_page = msg.context_page,
                               !.show_context = ~self.show_context,
                               !.context_title = title(msg.context_page)],
          command |-> <<>>,
          effects |-> {"set_context_title"}]
    ELSE [app |-> [self EXCEPT !.grid_rows_count = msg.grid_rows_count],
          command |-> <<>>,
          effects |-> {}]

\* update sending the link again when it could not be opened
update_retry_open(self, msg, opened) ==
    IF msg.type = "LaunchUrl"
    THEN [app |-> self,
          command |-> IF opened THEN <<>> ELSE <<msg>>,
          effects |-> {"open"}]
    ELSE IF msg.type = "ToggleContextPage"
    THEN [app |->
            IF self.context_page = msg.context_page
            THEN [self EXCEPT !.show_context = ~self.show_context,
                              !.context_title = title(msg.context_page)]
            ELSE [self EXCEPT !.context_page = msg.context_page,
                              !.show_context = TRUE,
                              !.context_title = title(msg.context_page)],
          command |-> <<>>,
          effects |-> {"set_context_title"}]
    ELSE [app |-> [self EXCEPT !.grid_rows_count = msg.grid_rows_count],
          command |-> <<>>,
          effects |-> {}]

\* update keeping a known row count when the message carries None
update_keep_known(self, msg, opened) ==
    IF msg.type = "LaunchUrl"
    THEN [app |-> self, command |-> <<>>, effects |-> {"open"}]
    ELSE IF msg.type = "ToggleContextPage"
    THEN [app |->
            IF self.context_page = msg.context_page
            THEN [self EXCEPT !.show_context = ~self.show_context,
                              !.context_title = title(msg.context_page)]
            ELSE [self EXCEPT !.context_page = msg.context_page,
                              !.show_context = TRUE,
                              !.context_title = title(msg.context_page)],
          command |-> <<>>,
          effects |-> {"set_context_title"}]
    ELSE [app |-> IF msg.grid_rows_count = None THEN self
                  ELSE [self EXCEPT !.grid_rows_count = msg.grid_rows_count],
          command |-> <<>>,
          effects |-> {}]

\* update setting the drawer's title only when the toggle shows the drawer
update_title_if_shown(self, msg, opened) ==
    IF msg.type = "LaunchUrl"
    THEN [app |-> self, command |-> <<>>, effects |-> {"open"}]
    ELSE IF msg.type = "ToggleContextPage"
    THEN IF self.context_page = msg.context_page /\ self.show_context
         THEN [app |-> [self EXCEPT !.show_context = FALSE],
               command |-> <<>>,
               effects |-> {}]
         ELSE [app |-> [self EXCEPT !.context_page = msg.context_page,
                                    !.show_context = TRUE,
                                    !.context_title = title(msg.context_page)],
               command |-> <<>>,
               effects |-> {"set_context_title"}]
    ELSE [app |-> [self EXCEPT !.grid_rows_count = msg.grid_rows_count],
          command |-> <<>>,
          effects |-> {}]

\* update forgetting the row count when the drawer is toggled
update_toggle_resets_count(self, msg, opened) ==
    IF msg.type = "LaunchUrl"
    THEN [app |-> self, command |-> <<>>, effects |-> {"open"}]
    ELSE IF msg.type = "ToggleContextPage"
    THEN [app |->
            IF self.context_page = msg.context_page
            THEN [self EXCEPT !.show_context = ~self.show_context,
                              !.context_title = title(msg.context_page),
                              !.grid_rows_count = None]
            ELSE [self EXCEPT !.context_page = msg.context_page,
                              !.show_context = TRUE,
                              !.context_title = title(msg.context_page),
                              !.grid_rows_count = None],
          command |-> <<>>,
          effects |-> {"set_context_title"}]
    ELSE [app |-> [self EXCEPT !.grid_rows_count = msg.grid_rows_count],
          command |-> <<>>,
          effects |-> {}]

\* update hiding the drawer whenever the page it remembers is toggled
update_same_page_hides(self, msg, opened) ==
    IF msg.type = "LaunchUrl"
    THEN [app |-> self, command |-> <<>>, effects |-> {"open"}]
    ELSE IF msg.type = "ToggleContextPage"
    THEN [app |->
            IF self.context_page = msg.context_page
            THEN [self EXCEPT !.show_context = FALSE,
                              !.context_title = title(msg.context_page)]
            ELSE [self EXCEPT !.context_page = msg.context_page,
                              !.show_context = TRUE,
                              !.context_title = title(msg.context_page)],
          command |-> <<>>,
          effects |-> {"set_context_title"}]
    ELSE [app |-> [self EXCEPT !.grid_rows_count = msg.grid_rows_count],
          command |-> <<>>,
          effects |-> {}]

\* Svger::update: the application after the message, the command returned
\* and the effects performed; opened is the result of open::that_detached
update(self, msg, opened) ==
    IF msg.type = "LaunchUrl"
    THEN [app |-> self, command |-> <<>>, effects |-> {"open"}]
    ELSE IF msg.type = "ToggleContextPage"
    THEN [app |->
            IF self.context_page = msg.context_page
            THEN [self EXCEPT !.show_context = ~self.show_context,
                              !.context_title = title(msg.context_page)]
            ELSE [self EXCEPT !.context_page = msg.context_page,
                              !.show_context = TRUE,
                              !.context_title = title(msg.context_page)],
          command |-> <<>>,
          effects |-> {"set_context_title"}]
    ELSE [app |-> [self EXCEPT !.grid_rows_count = msg.grid_rows_count],
          command |-> <<>>,
          effects |-> {}]

\* Svger::context_drawer: the page drawn in the drawer, if any
context_drawer(self) ==
    IF ~self.show_context THEN None ELSE Some(self.context_page)

-----------------------------------------------------------------------------
(* The grid widget and Svger::view *)

\* widget::grid(): no children, the cursor at the first cell
grid == [children |-> <<>>, row |-> 1, column |-> 1]

\* Grid::push: the child takes the cell under the cursor
push(g, child) ==
    [g EXCEPT !.children = Append(@, [widget |-> child, row |-> g.row,
                                      column |-> g.column]),
              !.column = @ + 1]

\* Grid::insert_row: the cursor moves to the start of the next row
insert_row(g) == [g EXCEPT !.row = @ + 1, !.column = 1]

\* Path::file_name
file_name(path) == <<path.stem, path.ext>>

\* the column widget view builds for one file
svg_column(path) == [svg |-> path, caption |-> file_name(path)]

\* the loop body starting a new row without resetting row_count
loop_body_no_reset(acc, path, rows) ==
    LET pushed == push(acc.svg_grid, svg_column(path))
        count  == acc.row_count + 1
    IN  IF count = rows
        THEN [svg_grid |-> insert_row(pushed), row_count |-> count]
        ELSE [svg_grid |-> pushed, row_count |-> count]

\* one pass of the body of view's loop over svg_files
loop_body(acc, path, rows) ==
    LET pushed == push(acc.svg_grid, svg_column(path))
        count  == acc.row_count + 1
    IN  IF count = rows
        THEN [svg_grid |-> insert_row(pushed), row_count |-> 0]
        ELSE [svg_grid |-> pushed, row_count |-> count]

\* the loop of view over svg_files, from the i-th file on
RECURSIVE view_loop(_, _, _, _)
view_loop(files, i, acc, rows) ==
    IF i > Len(files) THEN acc.svg_grid
    ELSE view_loop(files, i + 1, loop_body(acc, files[i], rows), rows)

\* view laying the files out one to a row while the row count is unknown
view_default_count(self) ==
    [element |-> "grid",
     svg_grid |-> view_loop(self.svg_files, 1,
                            [svg_grid |-> grid, row_count |-> 0],
                            IF self.grid_rows_count = None THEN 1
                            ELSE self.grid_rows_count[1])]

\* Svger::view: the welcome caption, or the scrollable grid
view(self) ==
    IF self.grid_rows_count = None
    THEN [element |-> "welcome", svg_grid |-> grid]
    ELSE [element |-> "grid",
          svg_grid |-> view_loop(self.svg_files, 1,
                                 [svg_grid |-> grid, row_count |-> 0],
                                 self.grid_rows_count[1])]

-----------------------------------------------------------------------------
(* The state machine *)

\* the record of a step: the operation, the event or message it was given,
\* the messages it emitted, the effects it performed, and the drawer, the
\* row count and the context page it started from
Step(op, event, msg, emitted, effects) ==
    [op |-> op, event |-> event, message |-> msg, emitted |-> emitted,
     effects |-> effects,
     before |-> [drawer |-> context_drawer(Self),
                 grid_rows_count |-> grid_rows_count,
                 context_page |-> context_page]]

SetSelf(app) ==
    /\ context_page' = app.context_page
    /\ show_context' = app.show_context
    /\ context_title' = app.context_title
    /\ svg_files' = app.svg_files
    /\ grid_rows_count' = app.grid_rows_count

\* the state after Svger::init, for a directory of dirs and a window width
InitOver(dirs) ==
    \E d \in dirs, w \in Widths :
        LET made == init(d) IN
        /\ dir = d
        /\ context_page = made.app.context_page
        /\ show_context = made.app.show_context
        /\ context_title = made.app.context_title
        /\ svg_files = made.app.svg_files
        /\ grid_rows_count = made.app.grid_rows_count
        /\ commands = made.command
        /\ window_width = w
        /\ window_title = ""
        /\ queue = <<>>
        /\ last = Step("init", NoEvent, NoMessage, <<>>, {})

Remove(seq, i) == SubSeq(seq, 1, i - 1) \o SubSeq(seq, i + 1, Len(seq))

\* the runtime runs the set_window_title command of update_titles
SetWindowTitle ==
    \E i \in 1 .. Len(commands) :
        /\ commands[i] = "set_window_title"
        /\ commands' = Remove(commands, i)
        /\ window_title' = "app-title"
        /\ last' = Step("set_window_title", NoEvent, NoMessage, <<>>,
                        {"set_window_title"})
        /\ UNCHANGED <<context_page, show_context, context_title, svg_files,
                       grid_rows_count, dir, window_width, queue>>

\* the runtime runs the fetch_size command of update_grid_rows_count: the
\* main window's size is read and the mapped message is delivered
FetchSize ==
    \E i \in 1 .. Len(commands) :
        /\ commands[i] = "fetch_size"
        /\ Len(queue) < MaxQueue
        /\ commands' = Remove(commands, i)
        /\ queue' = Append(queue, update_grid_rows_count(window_width))
        /\ last' = Step("fetch_size",
                        WindowEvent(MAIN, "Size", window_width), NoMessage,
                        <<update_grid_rows_count(window_width)>>, {})
        /\ UNCHANGED <<context_page, show_context, context_title, svg_files,
                       grid_rows_count, dir, window_width, window_title>>

\* the delivery dropping a message equal to the newest one in flight
Subscription_coalescing ==
    \E event \in Events :
        LET mapped == subscription(event)
            repeated == /\ mapped # None
                        /\ queue # <<>>
                        /\ queue[Len(queue)] = mapped[1]
        IN
        /\ mapped # None => Len(queue) < MaxQueue
        /\ queue' = IF repeated THEN queue ELSE queue \o mapped
        /\ window_width' =
              IF /\ event.kind = "Window"
                 /\ event.window_id = MAIN
                 /\ event.window_event = "Resized"
              THEN event.width
              ELSE window_width
        /\ last' = Step("subscription", event, NoMessage, mapped, {})
        /\ UNCHANGED <<context_page, show_context, context_title, svg_files,
                       grid_rows_count, dir, window_title, commands>>

\* the runtime hands an event to the subscription; a resize of the main
\* window is the window taking that width
Subscription ==
    \E event \in Events :
        LET mapped == subscription(event) IN
        /\ mapped # None => Len(queue) < MaxQueue
        /\ queue' = queue \o mapped
        /\ window_width' =
              IF /\ event.kind = "Window"
                 /\ event.window_id = MAIN
                 /\ event.window_event = "Resized"
              THEN event.width
              ELSE window_width
        /\ last' = Step("subscription", event, NoMessage, mapped, {})
        /\ UNCHANGED <<context_page, show_context, context_title, svg_files,
                       grid_rows_count, dir, window_title, commands>>

\* the user picks an entry of the menu bar (header_start)
MenuPress ==
    \E action \in MenuAction :
        /\ Len(queue) < MaxQueue
        /\ queue' = Append(queue, message(action))
        /\ last' = Step("menu", NoEvent, NoMessage, <<message(action)>>, {})
        /\ UNCHANGED <<context_page, show_context, context_title, svg_files,
                       grid_rows_count, dir, window_width, window_title,
                       commands>>

\* the user presses the link of the about page shown in the drawer
LinkPress ==
    /\ context_drawer(Self) = Some(About)
    /\ Len(queue) < MaxQueue
    /\ queue' = Append(queue, LaunchUrl(REPOSITORY))
    /\ last' = Step("link", NoEvent, NoMessage, <<LaunchUrl(REPOSITORY)>>, {})
    /\ UNCHANGED <<context_page, show_context, context_title, svg_files,
                   grid_rows_count, dir, window_width, window_title,
                   commands>>

\* the loop handing update the message that arrived last
Update_newest_first ==
    /\ queue # <<>>
    /\ \E opened \in BOOLEAN :
          LET msg == queue[Len(queue)]
              out == update(Self, msg, opened)
          IN  /\ msg.type # "LaunchUrl" => opened
              /\ SetSelf(out.app)
              /\ queue' = SubSeq(queue, 1, Len(queue) - 1) \o out.command
              /\ last' = Step("update", NoEvent, msg, out.command,
                              IF msg.type = "LaunchUrl" /\ ~opened
                              THEN {"open_failed"} ELSE out.effects)
    /\ UNCHANGED <<dir, window_width, window_title, commands>>

\* the runtime delivers the oldest message to Svger::update
Update ==
    /\ queue # <<>>
    /\ \E opened \in BOOLEAN :
          LET msg == Head(queue)
              out == update(Self, msg, opened)
          IN  /\ msg.type # "LaunchUrl" => opened
              /\ SetSelf(out.app)
              /\ queue' = Tail(queue) \o out.command
              /\ last' = Step("update", NoEvent, msg, out.command,
                              IF msg.type = "LaunchUrl" /\ ~opened
                              THEN {"open_failed"} ELSE out.effects)
    /\ UNCHANGED <<dir, window_width, window_title, commands>>

Next ==
    \/ SetWindowTitle
    \/ FetchSize
    \/ Subscription
    \/ MenuPress
    \/ LinkPress
    \/ Update

Init == InitOver(SpecDirectories)

\* the application with its user and its runtime
Spec == Init /\ [][Next]_vars

\* the application under the runtime's scheduling: a command init returned
\* is run, and a message in flight is delivered to update. The measurement
\* is held back here only while MaxQueue messages are in flight, which
\* messages being handled ends again and again, hence the strong fairness.
SpecFair ==
    /\ Init
    /\ [][Next]_vars
    /\ SF_vars(FetchSize)
    /\ WF_vars(Update)

\* the layout pipeline alone, with no user at the menu, over every directory
InitLayout == InitOver(Directories)

NextLayout ==
    \/ SetWindowTitle
    \/ FetchSize
    \/ Subscription
    \/ Update

SpecLayout == InitLayout /\ [][NextLayout]_vars

\* the startup alone, with no event and no user, over every directory made
\* of the entries of EntryPool
InitStartup == InitOver(ListerDirectories)

NextStartup ==
    \/ SetWindowTitle
    \/ FetchSize
    \/ Update

SpecStartup == InitStartup /\ [][NextStartup]_vars

\* the values of Option<usize> and of SvgerMessage within the bounds
Counts == {None} \cup {Some(n) : n \in 0 .. MaxCols}
Messages ==
    {LaunchUrl(REPOSITORY)}
    \cup {ToggleContextPage(page) : page \in ContextPage}
    \cup {UpdateGridRowsCount(count) : count \in Counts}
MessageQueues == UNION {[1 .. n -> Messages] : n \in 0 .. MaxQueue}

\* update as a function of its arguments: any value of the fields update
\* reads and writes, any messages of the type SvgerMessage to handle
InitReducer ==
    \E d \in SpecDirectories, page \in ContextPage, shown \in BOOLEAN,
       count \in Counts, messages \in MessageQueues :
        /\ dir = d
        /\ context_page = page
        /\ show_context = shown
        /\ context_title = ""
        /\ svg_files = list_svg_files(d)
        /\ grid_rows_count = count
        /\ commands = <<>>
        /\ window_width = MaxCols * GRID_ITEM_WIDTH
        /\ window_title = "app-title"
        /\ queue = messages
        /\ last = Step("init", NoEvent, NoMessage, <<>>, {})

NextReducer == Update

SpecReducer == InitReducer /\ [][NextReducer]_vars

-----------------------------------------------------------------------------
(* Properties *)

\* a step in which a producer of UpdateGridRowsCount ran on a width: the
\* subscription on a resize of the main window, or the size measurement
IsMainResize(event) ==
    /\ event.kind = "Window"
    /\ event.window_id = MAIN
    /\ event.window_event = "Resized"

Resized(step) == step.op = "subscription" /\ IsMainResize(step.event)
Measured(step) == step.op = "fetch_size"
Produced(step) == Resized(step) \/ Measured(step)

\* the capacity a producing step put into its message
Capacity(step) == step.emitted[1].grid_rows_count

\* c is the floor of width / GRID_ITEM_WIDTH
IsFloor(c, width) ==
    /\ c * GRID_ITEM_WIDTH <= width
    /\ width < (c + 1) * GRID_ITEM_WIDTH

Handled(step, type) == step.op = "update" /\ step.message.type = type

\* C1: grid_rows_count is None or Some(n) with n >= 1, never Some(0), in
\* every reachable state.
C1_RowCapacityPositive ==
    grid_rows_count # None => grid_rows_count[1] >= 1

C3_CapacityIsFloor ==
    [][(Produced(last') /\ last'.event.width >= GRID_ITEM_WIDTH)
        => /\ Len(last'.emitted) = 1
           /\ last'.emitted[1].type = "UpdateGridRowsCount"
           /\ Capacity(last') # None
           /\ IsFloor(Capacity(last')[1], last'.event.width)
           /\ (Produced(last) /\ last.event.width >= GRID_ITEM_WIDTH)
                 => /\ last.event.width <= last'.event.width
                         => Capacity(last)[1] <= Capacity(last')[1]
                    /\ last'.event.width <= last.event.width
                         => Capacity(last')[1] <= Capacity(last)[1]]_vars

\* the measurement has run right after a resize to the same width, of at
\* least one cell, and both messages are in flight
C3_Witness ==
    /\ Measured(last)
    /\ last.event.width >= GRID_ITEM_WIDTH
    /\ Len(queue) = 2
    /\ queue[1] = queue[2]
    /\ queue[2] = last.emitted[1]
    /\ commands = <<"set_window_title">>

\* the cells of row r of a grid, in the order they were pushed
RowCells(g, r) == SelectSeq(g.children, LAMBDA cell : cell.row = r)

\* the files shown in row r
RowItems(g, r) ==
    LET cells == RowCells(g, r) IN
    [i \in 1 .. Len(cells) |-> cells[i].widget.svg]

\* the rows of a grid up to the cursor's, one after the other
RECURSIVE ConcatRows(_, _)
ConcatRows(g, r) ==
    IF r > g.row THEN <<>> ELSE RowItems(g, r) \o ConcatRows(g, r + 1)

\* C4: with a capacity n >= 1 every row the view builds except possibly
\* the last holds exactly n items (the last, where the cursor stands, holds
\* fewer than n), every item sits at the next free column of its row, and
\* the rows concatenated in order are exactly svg_files.
C4_RowsPartitionItems ==
    (grid_rows_count # None /\ grid_rows_count[1] >= 1)
        => LET n == grid_rows_count[1]
               g == view(Self).svg_grid
           IN  /\ view(Self).element = "grid"
               /\ \A r \in 1 .. g.row - 1 : Len(RowCells(g, r)) = n
               /\ Len(RowCells(g, g.row)) < n
               /\ \A r \in 1 .. g.row :
                     \A i \in 1 .. Len(RowCells(g, r)) :
                         RowCells(g, r)[i].column = i
               /\ \A i \in 1 .. Len(g.children) :
                     g.children[i].row \in 1 .. g.row
               /\ ConcatRows(g, 1) = svg_files

\* five files laid out two to a row: two full rows and a last row of one
C4_Witness ==
    /\ grid_rows_count = Some(2)
    /\ Len(svg_files) = 5
    /\ Len(RowCells(view(Self).svg_grid, 2)) = 2
    /\ Len(RowCells(view(Self).svg_grid, 3)) = 1
    /\ Handled(last, "UpdateGridRowsCount")

\* C5: when ToggleContextPage(id) is handled with the drawer hidden and
\* ToggleContextPage(id) is handled again next, the first shows page id and
\* the second hides the drawer again, for every page id.
C5_ToggleTwiceHides ==
    [][(/\ Handled(last, "ToggleContextPage")
        /\ last.before.drawer = None
        /\ Handled(last', "ToggleContextPage")
        /\ last'.message.context_page = last.message.context_page)
        => /\ context_drawer(Self) = Some(last.message.context_page)
           /\ context_drawer(Self)' = None]_vars

\* the second of two toggles of a page other than the default has hidden
\* the drawer that showed it
C5_Witness ==
    /\ Handled(last, "ToggleContextPage")
    /\ last.message.context_page # About
    /\ last.before.drawer = Some(last.message.context_page)
    /\ context_drawer(Self) = None
    /\ context_page = last.message.context_page

\* C6: when the drawer shows page a and ToggleContextPage(b) with b # a is
\* handled, the state after that one update step shows page b; the drawer
\* is hidden in no state between.
C6_SwitchKeepsDrawerShown ==
    [][(/\ Handled(last', "ToggleContextPage")
        /\ context_drawer(Self) # None
        /\ context_drawer(Self) # Some(last'.message.context_page))
        => context_drawer(Self)' = Some(last'.message.context_page)]_vars

\* the drawer showing About has switched to another page in one update
C6_Witness ==
    /\ Handled(last, "ToggleContextPage")
    /\ last.before.drawer = Some(About)
    /\ last.message.context_page # About
    /\ context_drawer(Self) = Some(last.message.context_page)

\* C7: layout unknown becomes laid out when the first UpdateGridRowsCount
\* is handled, and only then; once grid_rows_count is Some it is never None
\* again, every later UpdateGridRowsCount being a laid out -> laid out step.
C7_LaidOutOnceAndForAll ==
    [][/\ grid_rows_count # None => grid_rows_count' # None
       /\ Handled(last', "UpdateGridRowsCount") => grid_rows_count' # None
       /\ (grid_rows_count = None /\ grid_rows_count' # None)
            => Handled(last', "UpdateGridRowsCount")]_vars

\* a later resize has been handled: laid out before, laid out with another
\* capacity after
C7_Witness ==
    /\ Handled(last, "UpdateGridRowsCount")
    /\ last.before.grid_rows_count # None
    /\ grid_rows_count # None
    /\ grid_rows_count # last.before.grid_rows_count

\* C8: an event that is not a resize of the main window (an event of
\* another window, another event of the main window, an event of no
\* window) produces no message and leaves grid_rows_count, the overlay
\* state, svg_files and the messages in flight unchanged.
C8_OtherEventsIgnored ==
    [][(last'.op = "subscription" /\ ~IsMainResize(last'.event))
        => /\ last'.emitted = <<>>
           /\ UNCHANGED <<grid_rows_count, context_page, show_context,
                          svg_files, queue>>]_vars

\* a resize of another window has been ignored while the grid was laid out
C8_Witness ==
    /\ last.op = "subscription"
    /\ last.event.kind = "Window"
    /\ last.event.window_id = OtherWindow
    /\ last.event.window_event = "Resized"
    /\ last.emitted = <<>>
    /\ grid_rows_count # None
    /\ queue = <<>>

\* C9: every resize notification of the main window with width w appends
\* exactly one UpdateGridRowsCount(Some(floor(w / GRID_ITEM_WIDTH))) to the
\* messages in flight, whatever is in flight already, and update is given
\* the messages oldest first, each capacity being applied as it is handled.
C9_EveryResizeDeliveredInOrder ==
    [][/\ Resized(last')
            => /\ Len(queue') = Len(queue) + 1
               /\ SubSeq(queue', 1, Len(queue)) = queue
               /\ queue'[Len(queue')].type = "UpdateGridRowsCount"
               /\ queue'[Len(queue')].grid_rows_count # None
               /\ IsFloor(queue'[Len(queue')].grid_rows_count[1],
                          last'.event.width)
       /\ last'.op = "update"
            => /\ queue # <<>>
               /\ last'.message = Head(queue)
               /\ queue' = Tail(queue)
       /\ Handled(last', "UpdateGridRowsCount")
            => grid_rows_count' = Head(queue).grid_rows_count]_vars

\* two resizes to the same width have each put their message in flight
C9_Witness ==
    /\ Resized(last)
    /\ Len(queue) = 2
    /\ queue[1] = queue[2]
    /\ queue[2] = last.emitted[1]
    /\ "fetch_size" \in {commands[i] : i \in 1 .. Len(commands)}

\* C10: right after init the drawer is hidden, grid_rows_count is None,
\* svg_files is what list_svg_files found, no message is in flight, and
\* exactly two commands are issued: set the window title, measure the
\* main window.
C10_InitState ==
    last.op = "init"
        => /\ ~show_context
           /\ context_drawer(Self) = None
           /\ grid_rows_count = None
           /\ svg_files = list_svg_files(dir)
           /\ queue = <<>>
           /\ Len(commands) = 2
           /\ \E i, j \in 1 .. Len(commands) :
                 /\ commands[i] = "set_window_title"
                 /\ commands[j] = "fetch_size"

\* the state right after init over a directory holding svg files
C10_Witness ==
    /\ last.op = "init"
    /\ svg_files # <<>>
    /\ svg_files = list_svg_files(dir)

\* the paths of a listing's entries that pass for svg files, in order
Wanted(entry) ==
    /\ entry.ok
    /\ entry.is_file
    /\ entry.path.ext # None
    /\ entry.path.ext[1] = "svg"

WantedPaths(entries) ==
    LET kept == SelectSeq(entries, Wanted) IN
    [i \in 1 .. Len(kept) |-> kept[i].path]

InFiles(path) == \E i \in 1 .. Len(svg_files) : svg_files[i] = path

\* C11: svg_files, the result of list_svg_files, holds exactly the
\* immediate entries that are readable regular files with the extension
\* svg, in enumeration order (a.svg is in; b.png, c.SVG and d.svg of sub/
\* are out), and is empty when the path is no directory or cannot be read.
C11_ListsExactlySvgFiles ==
    /\ (dir.is_dir /\ dir.readable) => svg_files = WantedPaths(dir.entries)
    /\ ~(dir.is_dir /\ dir.readable) => svg_files = <<>>
    /\ \A i \in 1 .. Len(dir.entries) :
          LET entry == dir.entries[i] IN
          /\ (entry = a_svg /\ dir.readable) => InFiles(entry.path)
          /\ entry \in {b_png, c_SVG} => ~InFiles(entry.path)
          /\ ~entry.is_file => ~InFiles(entry.path)
          /\ \A j \in 1 .. Len(entry.children) :
                ~InFiles(entry.children[j].path)

\* the listing of c.SVG, sub/ and a.svg has been read
C11_Witness ==
    /\ dir.is_dir /\ dir.readable
    /\ dir.entries = <<c_SVG, sub, a_svg>>
    /\ svg_files = <<a_svg.path>>

\* C12: handling LaunchUrl, whether the link opens or not, leaves the
\* overlay state, svg_files and grid_rows_count unchanged, emits no message
\* and issues no command: the message leaves the queue and nothing enters.
C12_LaunchUrlChangesNothing ==
    [][Handled(last', "LaunchUrl")
        => /\ UNCHANGED <<context_page, show_context, svg_files,
                          grid_rows_count, commands>>
           /\ last'.emitted = <<>>
           /\ queue' = Tail(queue)
           /\ last'.effects \in {{"open"}, {"open_failed"}}]_vars

\* a link that could not be opened has been handled, the drawer shown and
\* the grid laid out, with another message still in flight
C12_Witness ==
    /\ Handled(last, "LaunchUrl")
    /\ last.effects = {"open_failed"}
    /\ context_drawer(Self) = Some(About)
    /\ grid_rows_count # None
    /\ Len(queue) = 1

\* C13: handling UpdateGridRowsCount(c) sets grid_rows_count to c, for c
\* None or Some(n) and whatever grid_rows_count was, and emits no message
\* and issues no command.
C13_RowCountReplaced ==
    [][Handled(last', "UpdateGridRowsCount")
        => /\ grid_rows_count' = Head(queue).grid_rows_count
           /\ last'.emitted = <<>>
           /\ queue' = Tail(queue)
           /\ UNCHANGED commands]_vars

\* a known row count has been replaced by None
C13_Witness ==
    /\ Handled(last, "UpdateGridRowsCount")
    /\ last.message.grid_rows_count = None
    /\ last.before.grid_rows_count # None
    /\ grid_rows_count = None

\* C14: handling ToggleContextPage(id) performs a title update for page id
\* when the drawer is shown after the step, and performs none when the
\* drawer is hidden after the step.
C14_TitleUpdateOnlyWhenShown ==
    Handled(last, "ToggleContextPage")
        => /\ context_drawer(Self) # None
                => /\ "set_context_title" \in last.effects
                   /\ context_title = title(last.message.context_page)
           /\ context_drawer(Self) = None
                => "set_context_title" \notin last.effects

\* C14 as amended: handling ToggleContextPage(id) sets the drawer's title
\* to the title of page id in every case, also when the step hides the
\* drawer; the title a hiding step sets is the one the drawer had.
C14_TitleUpdateOnEveryToggle ==
    [][Handled(last', "ToggleContextPage")
        => /\ "set_context_title" \in last'.effects
           /\ context_title' = title(last'.message.context_page)
           /\ context_drawer(Self)' = None
                => context_title' = context_title]_vars

\* a toggle has hidden the drawer and set its title all the same
C14_Witness ==
    /\ Handled(last, "ToggleContextPage")
    /\ last.before.drawer = Some(last.message.context_page)
    /\ context_drawer(Self) = None
    /\ "set_context_title" \in last.effects
    /\ context_title = title(last.message.context_page)

\* rows is the least number of rows of n cells that hold k items
IsCeil(rows, k, n) == rows * n >= k /\ (rows - 1) * n < k

C16_EventuallyLaidOut == <>(grid_rows_count # None)

\* the measurement's message has been handled and laid the grid out
C16_Witness ==
    /\ Handled(last, "UpdateGridRowsCount")
    /\ last.before.grid_rows_count = None
    /\ grid_rows_count # None
    /\ \A i \in 1 .. Len(commands) : commands[i] # "fetch_size"
    /\ queue = <<>>

\* C17: while grid_rows_count is None the view is the welcome caption alone
\* and shows no file, however many files there are and whatever the drawer
\* shows; the grid is the view only when grid_rows_count is Some(n).
C17_WelcomeWhileUnknown ==
    /\ grid_rows_count = None
            => /\ view(Self).element = "welcome"
               /\ view(Self).svg_grid.children = <<>>
    /\ view(Self).element = "grid" => grid_rows_count # None

\* five files found, the drawer showing About, the layout still unknown
C17_Witness ==
    /\ grid_rows_count = None
    /\ Len(svg_files) = 5
    /\ context_drawer(Self) = Some(About)
    /\ view(Self).element = "welcome"

\* C18: no step changes svg_files, which stays what list_svg_files found at
\* init; handling ToggleContextPage leaves grid_rows_count unchanged and
\* handling UpdateGridRowsCount leaves the overlay state unchanged.
C18_FilesAndFramesKept ==
    [][/\ svg_files' = svg_files
       /\ dir' = dir
       /\ svg_files' = list_svg_files(dir)
       /\ Handled(last', "ToggleContextPage")
            => grid_rows_count' = grid_rows_count
       /\ Handled(last', "UpdateGridRowsCount")
            => UNCHANGED <<context_page, show_context>>]_vars

\* the drawer has been toggled over a laid out grid of files
C18_Witness ==
    /\ Handled(last, "ToggleContextPage")
    /\ grid_rows_count # None
    /\ last.before.grid_rows_count = grid_rows_count
    /\ svg_files # <<>>
    /\ context_drawer(Self) # last.before.drawer

\* the overlay state the pair (context_page, show_context) stands for:
\* Hidden is None, Visible(page) is Some(page)
OverlayState(self) ==
    IF self.show_context THEN Some(self.context_page) ELSE None

\* the rule of the overlay state machine for ToggleOverlay(id)
ToggleOverlay(overlay, id) ==
    IF overlay = Some(id) THEN None ELSE Some(id)

\* C19: (context_page, show_context) refines the overlay state: it stands
\* for Hidden after init, every ToggleContextPage(id) handled takes the
\* state it stands for to the one the rule "Visible(id) becomes Hidden,
\* anything else becomes Visible(id)" gives, and no other step changes it;
\* so after every sequence of toggles the two agree.
C19_OverlayRefinement ==
    /\ OverlayState(Self) = None
    /\ [][IF Handled(last', "ToggleContextPage")
          THEN OverlayState(Self)' =
                 ToggleOverlay(OverlayState(Self),
                               last'.message.context_page)
          ELSE OverlayState(Self)' = OverlayState(Self)]_vars

\* a page other than About, remembered while the drawer was hidden, has
\* been toggled again and is shown
C19_Witness ==
    /\ Handled(last, "ToggleContextPage")
    /\ last.message.context_page # About
    /\ last.before.drawer = None
    /\ last.before.context_page = last.message.context_page
    /\ OverlayState(Self) = Some(last.message.context_page)

\* the capacity that stands once the messages in flight are handled: the one
\* of the newest UpdateGridRowsCount in flight, grid_rows_count with none
NewestCapacity ==
    LET at == {i \in 1 .. Len(queue) :
                  queue[i].type = "UpdateGridRowsCount"}
    IN  IF at = {}
        THEN grid_rows_count
        ELSE queue[CHOOSE i \in at : \A j \in at : j <= i].grid_rows_count

MeasurementPending == \E i \in 1 .. Len(commands) : commands[i] = "fetch_size"

====
